---- MODULE Spec2Model ----
(***************************************************************************)
(* Model of backend/app/services/llm/prompt_templates.py: the context      *)
(* formatter, the message builder and the history truncator.               *)
(*                                                                         *)
(* Python values are represented as follows.                               *)
(*   - a list is a sequence;                                               *)
(*   - a dict is a function whose DOMAIN is its key set, so that           *)
(*     `"role" in msg` is `"role" \in DOMAIN msg`;                         *)
(*   - a str that the code builds is a sequence of tokens: "\n" and "-"    *)
(*     are single characters, every other token is an atomic piece of     *)
(*     text; concatenation is \o;                                          *)
(*   - a float score is an integer number of ten-thousandths;              *)
(*   - a value that may be None (system_msg, conversation_history) is a    *)
(*     sequence of length 0 (None) or 1 (Some(value)).                     *)
(***************************************************************************)
EXTENDS Integers, Sequences, FiniteSets, TLC

VARIABLES op, args, history, ret, same, raised

vars == <<op, args, history, ret, same, raised>>

(***************************************************************************)
(* Bounds of the explored inputs.                                          *)
(***************************************************************************)
MaxLen == 3
MaxCap == 3
MaxResults == 2

None == <<>>

Some(v) == <<v>>

(***************************************************************************)
(* Input domains.                                                          *)
(***************************************************************************)
Roles == {"system", "user", "assistant"}

Contents == {"a", "b"}

\* well-formed messages and messages lacking the `role` key
Msgs == [role : Roles, content : Contents] \cup [content : Contents]

RECURSIVE SeqsUpTo(_, _)
SeqsUpTo(S, n) ==
  IF n = 0 THEN {<<>>}
  ELSE LET shorter == SeqsUpTo(S, n - 1)
       IN shorter \cup {Append(s, x) : s \in {t \in shorter : Len(t) = n - 1}, x \in S}

Histories == SeqsUpTo(Msgs, MaxLen)

Caps == (-1) .. MaxCap

SystemPrompts == {"SYS-1", "SYS-2"}

UserPrompts == {"Question: q"}

Sentinel == <<"No relevant context found.">>

Texts == { <<"alpha">>,
           <<"beta", "\n", "\n", "-", "-", "gamma">>,
           Sentinel }

Metadatas == { [file_name |-> <<"a.pdf">>, chunk_index |-> 0],
               [file_name |-> <<"b.md">>, chunk_index |-> 12],
               [chunk_index |-> 7],
               [file_name |-> <<"c.txt">>] }

\* scores in ten-thousandths: 0.1234, 0.8766, 0.9996
Scores == {1234, 8766, 9996}

RetrievalResults == [text : Texts, score : Scores, metadata : Metadatas]

ResultLists == SeqsUpTo(RetrievalResults, MaxResults)

(***************************************************************************)
(* Python primitives used by the code.                                     *)
(***************************************************************************)
\* dict.get(key, default)
get(d, key, default) == IF key \in DOMAIN d THEN d[key] ELSE default

\* truth value of a list
truthy(l) == Len(l) > 0

\* truth value of a list-or-None
truthy_opt(o) == o # None /\ truthy(o[1])

\* truth value of a dict-or-None
truthy_dict_opt(o) == o # None /\ DOMAIN o[1] # {}

\* seq[start:] for any integer start
slice_from(s, start) ==
  LET n == Len(s)
      lo == IF start < 0
            THEN (IF n + start < 0 THEN 0 ELSE n + start)
            ELSE (IF start > n THEN n ELSE start)
  IN SubSeq(s, lo + 1, n)

Digit(d) == <<"0", "1", "2", "3", "4", "5", "6", "7", "8", "9">>[d + 1]

\* str(n) for n >= 0
RECURSIVE IntToStr(_)
IntToStr(n) ==
  IF n < 10 THEN <<Digit(n)>>
  ELSE IntToStr(n \div 10) \o <<Digit(n % 10)>>

\* f"{score:.3f}" for a score given in ten-thousandths (no exact ties in Scores)
Format3f(score) ==
  LET t == (score + 5) \div 10
  IN IntToStr(t \div 1000)
       \o <<".", Digit((t \div 100) % 10), Digit((t \div 10) % 10), Digit(t % 10)>>

\* sep.join(parts)
RECURSIVE join(_, _)
join(sep, parts) ==
  IF Len(parts) = 0 THEN <<>>
  ELSE IF Len(parts) = 1 THEN parts[1]
  ELSE parts[1] \o sep \o join(sep, Tail(parts))

(***************************************************************************)
(* format_context_from_results                                             *)
(***************************************************************************)
DividerWidth == 80

\* "-" * 80
Divider == [i \in 1 .. DividerWidth |-> "-"]

\* first index handed out by enumerate(results, 1)
enumerate_start == 1

\* the f-string built for one result
context_part(idx, result) ==
  LET file_name == get(result.metadata, "file_name", <<"Unknown">>)
      chunk_index == IF "chunk_index" \in DOMAIN result.metadata
                     THEN IntToStr(result.metadata["chunk_index"])
                     ELSE <<"N/A">>
      score == result.score
  IN <<"Document ">> \o IntToStr(idx) \o <<" (Source: ">> \o file_name
       \o <<", Chunk: ">> \o chunk_index
       \o <<", Relevance: ">> \o Format3f(score) \o <<"):", "\n">>
       \o result.text

\* the loop with enumerate(results): indices from 0
RECURSIVE context_parts_from_zero(_, _, _)
context_parts_from_zero(results, i, acc) ==
  IF i > Len(results) THEN acc
  ELSE context_parts_from_zero(results, i + 1,
                               Append(acc, context_part(i - 1, results[i])))

\* the for loop: context_parts after visiting results[i..]
RECURSIVE context_parts(_, _, _)
context_parts(results, i, acc) ==
  IF i > Len(results) THEN acc
  ELSE context_parts(results, i + 1,
                     Append(acc, context_part(enumerate_start + i - 1, results[i])))

format_context_no_guard(results) ==
  <<"\n", "\n">> \o Divider
    \o join(<<"\n", "\n">>, context_parts(results, 1, <<>>))

format_context_from_results(results) ==
  IF ~truthy(results) THEN Sentinel
  ELSE <<"\n", "\n">> \o Divider
         \o join(<<"\n", "\n">>, context_parts(results, 1, <<>>))

(***************************************************************************)
(* build_messages                                                          *)
(***************************************************************************)
build_messages_user_first(system_prompt, user_prompt, conversation_history) ==
  LET messages0 == <<[role |-> "system", content |-> system_prompt]>>
      messages1 == Append(messages0, [role |-> "user", content |-> user_prompt])
  IN IF truthy_opt(conversation_history)
     THEN messages1 \o conversation_history[1]
     ELSE messages1

build_messages(system_prompt, user_prompt, conversation_history) ==
  LET messages0 == <<[role |-> "system", content |-> system_prompt]>>
      messages1 == IF truthy_opt(conversation_history)
                   THEN messages0 \o conversation_history[1]
                   ELSE messages0
  IN Append(messages1, [role |-> "user", content |-> user_prompt])

\* the call as the caller sees it: the returned list, the argument list
\* after the call, and whether the two are the same list object
build_messages_call(system_prompt, user_prompt, conversation_history) ==
  [ret |-> build_messages(system_prompt, user_prompt, conversation_history),
   history |-> conversation_history,
   same |-> FALSE,
   raised |-> FALSE]

(***************************************************************************)
(* truncate_conversation_history                                           *)
(***************************************************************************)
classify_keep_malformed(msg) ==
  IF get(msg, "role", "None") = "system" THEN "system" ELSE "other"

\* the branch of the loop body taken for msg
classify(msg) ==
  IF get(msg, "role", "None") = "system" THEN "system"
  ELSE IF "role" \in DOMAIN msg THEN "other"
  ELSE "skip"

\* the for loop: system_msg and other_msgs after visiting history[i..]
RECURSIVE scan(_, _, _, _)
scan(hist, i, system_msg, other_msgs) ==
  IF i > Len(hist) THEN [system_msg |-> system_msg, other_msgs |-> other_msgs]
  ELSE LET msg == hist[i]
           branch == classify(msg)
       IN IF branch = "system" THEN scan(hist, i + 1, Some(msg), other_msgs)
          ELSE IF branch = "other" THEN scan(hist, i + 1, system_msg, Append(other_msgs, msg))
          ELSE scan(hist, i + 1, system_msg, other_msgs)

last_n_wrong_sign(other_msgs, max_messages) == slice_from(other_msgs, max_messages)

\* other_msgs[-max_messages:]
last_n(other_msgs, max_messages) == slice_from(other_msgs, -max_messages)

rebuild_system_last(system_msg, other_msgs) ==
  other_msgs \o (IF truthy_dict_opt(system_msg)
                 THEN <<system_msg[1]>> ELSE <<>>)

\* result = []; if system_msg: result.append(system_msg); result.extend(other_msgs)
rebuild(system_msg, other_msgs) ==
  (IF truthy_dict_opt(system_msg)
   THEN <<system_msg[1]>> ELSE <<>>) \o other_msgs

truncate_cap_before_filter(hist, max_messages) ==
  IF ~truthy(hist) THEN <<>>
  ELSE LET parts == scan(hist, 1, None, <<>>)
           all == SelectSeq(hist, LAMBDA m : classify(m) # "system")
           kept == IF Len(all) > max_messages THEN last_n(all, max_messages) ELSE all
       IN rebuild(parts.system_msg, SelectSeq(kept, LAMBDA m : classify(m) = "other"))

truncate_conversation_history(hist, max_messages) ==
  IF ~truthy(hist) THEN <<>>
  ELSE LET parts == scan(hist, 1, None, <<>>)
           other_msgs == IF Len(parts.other_msgs) > max_messages
                         THEN last_n(parts.other_msgs, max_messages)
                         ELSE parts.other_msgs
       IN rebuild(parts.system_msg, other_msgs)

truncate_call_return_input(hist, max_messages) ==
  LET r == truncate_conversation_history(hist, max_messages)
  IN [ret |-> r, history |-> Some(hist), same |-> (r = hist), raised |-> FALSE]

\* the call as the caller sees it (see build_messages_call)
truncate_call(hist, max_messages) ==
  [ret |-> truncate_conversation_history(hist, max_messages),
   history |-> Some(hist),
   same |-> FALSE,
   raised |-> FALSE]

(***************************************************************************)
(* State machine: a caller that invokes one of the three functions on an   *)
(* arbitrary input and may afterwards append to the list it got back.      *)
(* The functions keep no state between calls, so every behaviour is one    *)
(* call.                                                                   *)
(***************************************************************************)
NoArgs == [fn |-> "none"]

Init ==
  /\ op = "idle"
  /\ args = NoArgs
  /\ history = None
  /\ ret = <<>>
  /\ same = FALSE
  /\ raised = FALSE

FormatContext ==
  /\ op = "idle"
  /\ \E results \in ResultLists :
    /\ op' = "format_context"
    /\ args' = [fn |-> "format_context_from_results", results |-> results]
    /\ history' = None
    /\ ret' = format_context_from_results(results)
    /\ same' = FALSE
    /\ raised' = FALSE

BuildMessages ==
  /\ op = "idle"
  /\ \E system_prompt \in SystemPrompts, user_prompt \in UserPrompts,
     conversation_history \in {None} \cup {Some(h) : h \in Histories} :
    LET c == build_messages_call(system_prompt, user_prompt, conversation_history)
    IN /\ op' = "build_messages"
       /\ args' = [fn |-> "build_messages",
                   system_prompt |-> system_prompt,
                   user_prompt |-> user_prompt,
                   conversation_history |-> conversation_history]
       /\ history' = c.history
       /\ ret' = c.ret
       /\ same' = c.same
       /\ raised' = c.raised

Truncate ==
  /\ op = "idle"
  /\ \E hist \in Histories, max_messages \in Caps :
    LET c == truncate_call(hist, max_messages)
    IN /\ op' = "truncate"
       /\ args' = [fn |-> "truncate_conversation_history",
                   history |-> hist,
                   max_messages |-> max_messages]
       /\ history' = c.history
       /\ ret' = c.ret
       /\ same' = c.same
       /\ raised' = c.raised

\* the caller appends to the returned list; a list aliased with the
\* argument changes with it
AppendToResult ==
  /\ op \in {"build_messages", "truncate"}
  /\ ~raised
  /\ op' = "append"
  /\ ret' = Append(ret, [role |-> "assistant", content |-> "b"])
  /\ history' = IF same THEN Some(ret') ELSE history
  /\ UNCHANGED <<args, same, raised>>

Next == FormatContext \/ BuildMessages \/ Truncate \/ AppendToResult

Spec == Init /\ [][Next]_vars

TypeOK ==
  /\ op \in {"idle", "format_context", "build_messages", "truncate", "append"}
  /\ same \in BOOLEAN
  /\ raised \in BOOLEAN

(***************************************************************************)
(* Vocabulary of the properties.                                           *)
(***************************************************************************)
HasRole(m) == "role" \in DOMAIN m

IsSystem(m) == HasRole(m) /\ m.role = "system"

IsOther(m) == HasRole(m) /\ m.role # "system"

\* the role-bearing non-system messages of a list, in order
NonSystem(l) == SelectSeq(l, IsOther)

\* the list without the entries that lack a role
WellFormed(l) == SelectSeq(l, HasRole)

HasSystem(l) == \E i \in 1 .. Len(l) : IsSystem(l[i])

LastSystemIndex(l) ==
  CHOOSE i \in 1 .. Len(l) :
    IsSystem(l[i]) /\ \A j \in (i + 1) .. Len(l) : ~IsSystem(l[j])

\* the last n elements of a list, 0 <= n <= Len(l)
Trailing(l, n) == [i \in 1 .. n |-> l[Len(l) - n + i]]

\* d occurs in s as a contiguous run
Contains(s, d) ==
  \E i \in 1 .. (Len(s) - Len(d) + 1) : SubSeq(s, i, i + Len(d) - 1) = d

\* positions of the block headers in a formatted context
HeaderPositions(out) == {i \in 1 .. Len(out) : out[i] = "Document "}

\* position of the k-th header
BlockStart(out, k) ==
  CHOOSE p \in HeaderPositions(out) :
    Cardinality({q \in HeaderPositions(out) : q < p}) = k - 1

\* the block expected for the k-th result
ExpectedBlock(k, r) ==
  LET fn == IF "file_name" \in DOMAIN r.metadata THEN r.metadata.file_name ELSE <<"Unknown">>
      ci == IF "chunk_index" \in DOMAIN r.metadata
            THEN IntToStr(r.metadata.chunk_index) ELSE <<"N/A">>
  IN <<"Document ">> \o IntToStr(k) \o <<" (Source: ">> \o fn \o <<", Chunk: ">> \o ci
       \o <<", Relevance: ">> \o Format3f(r.score) \o <<"):">> \o <<"\n">> \o r.text

BlockEnd(out, k, r) == BlockStart(out, k) + Len(ExpectedBlock(k, r)) - 1

(***************************************************************************)
(* C1: whenever the role-bearing non-system messages of the history are    *)
(* more than max_messages (max_messages >= 0, 0 included), the non-system  *)
(* part of the result is exactly the trailing max_messages of them, in     *)
(* order, so the result holds at most max_messages non-system messages.    *)
(***************************************************************************)
C1_TrailingMaxKept ==
  (op = "truncate" /\ args.max_messages >= 0
     /\ Len(NonSystem(args.history)) > args.max_messages)
  => /\ NonSystem(ret) = Trailing(NonSystem(args.history), args.max_messages)
     /\ Len(NonSystem(ret)) <= args.max_messages

(***************************************************************************)
(* C2: if the history holds a system message, the result starts with the   *)
(* last system message of the input and holds no other system message;     *)
(* if the history holds none, neither does the result.                     *)
(***************************************************************************)
C2_SystemMessageFirst ==
  op = "truncate"
  => IF HasSystem(args.history)
     THEN /\ Len(ret) >= 1
          /\ IsSystem(ret[1])
          /\ ret[1] = args.history[LastSystemIndex(args.history)]
          /\ \A j \in 2 .. Len(ret) : ~IsSystem(ret[j])
     ELSE ~HasSystem(ret)

C2_Witness ==
  /\ op = "truncate"
  /\ \E i, j \in 1 .. Len(args.history) :
       /\ i < j
       /\ IsSystem(args.history[i]) /\ IsSystem(args.history[j])
       /\ args.history[i] # args.history[j]
       /\ ret[1] = args.history[j]
  /\ Len(ret) >= 2

(***************************************************************************)
(* C3: build_messages returns [system, ...history, user]: length           *)
(* 2 + length(history) (None counted as 0), the system prompt first, the   *)
(* user prompt last, the history entries verbatim and in order in between. *)
(***************************************************************************)
C3_BuildMessagesShape ==
  op = "build_messages"
  => LET h == IF args.conversation_history = None THEN <<>>
              ELSE args.conversation_history[1]
         n == Len(h)
     IN /\ Len(ret) = 2 + n
        /\ ret[1] = [role |-> "system", content |-> args.system_prompt]
        /\ ret[Len(ret)] = [role |-> "user", content |-> args.user_prompt]
        /\ \A i \in 1 .. n : ret[i + 1] = h[i]

C3_Witness ==
  /\ op = "build_messages"
  /\ args.conversation_history # None
  /\ Len(args.conversation_history[1]) >= 2
  /\ HasSystem(args.conversation_history[1])
  /\ \E i \in 1 .. Len(args.conversation_history[1]) :
       ~HasRole(args.conversation_history[1][i])
  /\ Len(ret) = 2 + Len(args.conversation_history[1])

(***************************************************************************)
(* C4: for two or more results, the 80-dash divider occurs between every   *)
(* two consecutive document blocks.                                        *)
(***************************************************************************)
C4_DividerBetweenBlocks ==
  (op = "format_context" /\ Len(args.results) >= 2)
  => \A k \in 1 .. (Len(args.results) - 1) :
       Contains(SubSeq(ret, BlockEnd(ret, k, args.results[k]) + 1,
                            BlockStart(ret, k + 1) - 1),
                Divider)

(***************************************************************************)
(* C5: for a non-empty list of N results the output holds exactly N        *)
(* document blocks, in input order; the k-th is headed "Document k",       *)
(* cites the k-th result's file name, chunk index and score, and is        *)
(* followed by that result's text.                                         *)
(***************************************************************************)
C5_OneBlockPerResult ==
  (op = "format_context" /\ Len(args.results) >= 1)
  => LET N == Len(args.results)
     IN /\ Cardinality(HeaderPositions(ret)) = N
        /\ \A k \in 1 .. N :
             /\ SubSeq(ret, BlockStart(ret, k), BlockEnd(ret, k, args.results[k]))
                  = ExpectedBlock(k, args.results[k])
             /\ k < N => BlockEnd(ret, k, args.results[k]) < BlockStart(ret, k + 1)
             /\ k = N => BlockEnd(ret, k, args.results[k]) = Len(ret)

C5_Witness ==
  /\ op = "format_context"
  /\ Len(args.results) = 2
  /\ args.results[1].text # args.results[2].text
  /\ args.results[1].metadata # args.results[2].metadata
  /\ Cardinality(HeaderPositions(ret)) = 2
  /\ BlockEnd(ret, 2, args.results[2]) = Len(ret)

(***************************************************************************)
(* C6: an entry without a role key never appears in the result, never      *)
(* raises, and does not count toward the cap: the result is that of the    *)
(* history without such entries, and when the role-bearing non-system      *)
(* messages fit the cap all of them are kept.                              *)
(***************************************************************************)
C6_MalformedSkipped ==
  op = "truncate"
  => /\ ~raised
     /\ \A j \in 1 .. Len(ret) : HasRole(ret[j])
     /\ ret = truncate_conversation_history(WellFormed(args.history), args.max_messages)
     /\ Len(NonSystem(args.history)) <= args.max_messages
          => NonSystem(ret) = NonSystem(args.history)

C6_Witness ==
  /\ op = "truncate"
  /\ \E i \in 1 .. Len(args.history) : ~HasRole(args.history[i])
  /\ args.max_messages >= 2
  /\ Len(NonSystem(args.history)) = args.max_messages
  /\ NonSystem(ret) = NonSystem(args.history)
  /\ Len(ret) < Len(args.history)

C8_SentinelIffEmpty ==
  op = "format_context"
  => /\ args.results = <<>> => ret = Sentinel
     /\ args.results # <<>> => ret # Sentinel

C8_Witness ==
  /\ op = "format_context"
  /\ args.results = <<>>
  /\ ret = Sentinel
  /\ ~Contains(ret, Divider)
  /\ HeaderPositions(ret) = {}

(***************************************************************************)
(* C9: an empty history gives an empty result for every max_messages, and  *)
(* so does a history whose entries all lack a role key.                    *)
(***************************************************************************)
C9_EmptyResult ==
  (op = "truncate" /\ \A i \in 1 .. Len(args.history) : ~HasRole(args.history[i]))
  => ret = <<>>

C9_Witness ==
  /\ op = "truncate"
  /\ Len(args.history) >= 2
  /\ \A i \in 1 .. Len(args.history) : ~HasRole(args.history[i])
  /\ args.max_messages >= Len(args.history)
  /\ ret = <<>>

(***************************************************************************)
(* C10: for max_messages >= 0, truncating the result again with the same   *)
(* cap gives the result back.                                              *)
(***************************************************************************)
C10_Idempotent ==
  (op = "truncate" /\ args.max_messages >= 0)
  => truncate_conversation_history(ret, args.max_messages) = ret

C10_Witness ==
  /\ op = "truncate"
  /\ args.max_messages >= 1
  /\ Len(NonSystem(args.history)) > args.max_messages
  /\ HasSystem(args.history)
  /\ ret # args.history
  /\ truncate_conversation_history(ret, args.max_messages) = ret

====
